---- MODULE Spec2Model ----
(***************************************************************************)
(* StrategyDeck.ai: the App component (App.tsx), the Gemini service        *)
(* (generateDeck, generateInfographic) and the DeckRenderer, as one state  *)
(* machine.  One step is one browser task or microtask: an event handler   *)
(* run up to its first await, or the continuation of one await, followed   *)
(* by the React render of the resulting state.                             *)
(***************************************************************************)
EXTENDS Integers, Sequences, FiniteSets, TLC

\* ------------------------------------------------------------- bounds
MaxSlides == 2          \* slides in a generated response
MaxInFlight == 2        \* unresolved handleGenerate invocations explored
MaxParts == 2           \* content parts in an image response
MaxFiles == 2           \* files selected so far and not removed
MaxUploads == 2         \* suspended handleFileChange invocations
MaxPoints == 2          \* points in the chartData of a slide

\* ---------------------------------------------------- program constants
MinPromptLength == 10
MaxFileBytes == 5 * 1024 * 1024

\* AppStatus; GENERATING is declared but never assigned.
AppStatus == {"IDLE", "ANALYZING", "GENERATING", "COMPLETE", "ERROR"}
AppMode == {"DECK", "INFOGRAPHIC"}
SlideLayout == {"TITLE", "BULLET_POINTS", "TWO_COLUMN", "CHART_BAR", "CHART_LINE", "KPI_GRID"}

\* JavaScript null (errorMsg, generatedInfographic) and undefined (response.text).
Null == "<null>"
Undefined == "<undefined>"

\* Error messages, verbatim.
MsgEmptyInput == "Please provide files or a detailed prompt to start."
MsgNoApiKey == "API Key not found in environment variables"
MsgNoResponse == "No response generated"
MsgDeckFailed == "Failed to generate deck. Please check your inputs and try again."
MsgImageFailed == "Failed to generate infographic image."
MsgUnexpected == "An unexpected error occurred."
FallbackBrief == "A professional corporate infographic showing key business metrics in navy and teal."
DataUriPrefix == "data:image/png;base64,"
TextModel == "gemini-2.5-flash"
ImageModel == "gemini-2.5-flash-image"

MathMin(a, b) == IF a < b THEN a ELSE b
MathMax(a, b) == IF a > b THEN a ELSE b

SeqsUpTo(S, n) == UNION {[1..k -> S] : k \in 0..n}

\* ------------------------------------------------ values from the outside
\* The prompt the user types; only its length is read by the App.
Prompts == {"", "Q3 trend", "Analyze Q3"}

\* Files offered by the file picker: one at exactly the cap, one under it, one over.
PickerFiles ==
    { [name |-> "a.pdf", size |-> 1024],
      [name |-> "b.txt", size |-> MaxFileBytes],
      [name |-> "big.pdf", size |-> MaxFileBytes + 1] }
\* A selection of one file, under the cap or over it.
SingleSelections == { <<f>> : f \in { g \in PickerFiles : g.size # MaxFileBytes } }
\* One selection in the file dialog: some of the files, each once, in some order.
Selections ==
    { sel \in SeqsUpTo(PickerFiles, Cardinality(PickerFiles)) :
        /\ sel # <<>>
        /\ \A a, b \in 1..Len(sel) : a # b => sel[a] # sel[b] }

\* A ChartPoint: value2 is optional; of label and value nothing is read here.
ChartPoints ==
    { [hasValue2 |-> FALSE, value2 |-> 0] }
    \cup { [hasValue2 |-> TRUE, value2 |-> v] : v \in {0, 5} }
ChartDatas == SeqsUpTo(ChartPoints, MaxPoints)

\* slide.content: not required by DECK_SCHEMA, so it may be undefined.
NoContent == [defined |-> FALSE, chartData |-> <<>>]
ContentOf(chartData) == [defined |-> TRUE, chartData |-> chartData]

\* speakerNotes is optional.
NotesValues == {Undefined, "Pause on the trend"}

\* A slide as the renderer and the export read it.
Slide(layout, content, speakerNotes) ==
    [layout |-> layout, content |-> content, speakerNotes |-> speakerNotes]

\* A JSON value as generateDeck reads it: null, false (falsy like null, but not
\* null), or an object that may or may not carry a slides array.
\* The slides tried in responses: a title slide with content, a bar chart slide
\* without content, and a slide whose layout is outside the enum.
UnknownLayout == "PIE_CHART"
ResponseLayouts == {"TITLE", "CHART_BAR", UnknownLayout}
ResponseSlides ==
    { Slide(l, IF l = "CHART_BAR" THEN NoContent ELSE ContentOf(<<>>), Undefined) :
        l \in ResponseLayouts }
JsonNull == [type |-> "null", hasSlides |-> FALSE, slides |-> <<>>]
JsonFalse == [type |-> "false", hasSlides |-> FALSE, slides |-> <<>>]
Truthy(value) == value.type = "object"
JsonValues ==
    {JsonNull, JsonFalse, [type |-> "object", hasSlides |-> FALSE, slides |-> <<>>]}
    \cup { [type |-> "object", hasSlides |-> TRUE, slides |-> s] :
             s \in SeqsUpTo(ResponseSlides, MaxSlides) }

\* The slides a mounted DeckRenderer is tried with: every layout with and without
\* content, a bar chart with every chartData, each with and without speakerNotes.
RenderSlides ==
    { Slide(l, c, n) : l \in SlideLayout \cup {UnknownLayout},
                       c \in {NoContent, ContentOf(<<>>)}, n \in NotesValues }
    \cup { Slide("CHART_BAR", ContentOf(d), n) : d \in ChartDatas, n \in NotesValues }
Filler == Slide("BULLET_POINTS", ContentOf(<<>>), Undefined)
\* The decks it is tried with: one slide of RenderSlides at any position among
\* filler slides.
RenderDecks ==
    { [type |-> "object", hasSlides |-> TRUE,
       slides |-> [k \in 1..n |-> IF k = at THEN s ELSE Filler]] :
        n \in 1..MaxSlides, at \in 1..MaxSlides, s \in RenderSlides }

\* response.text of the structured call: undefined, "", text that is not JSON,
\* or the serialization of a JSON value.
DeckTexts ==
    { [kind |-> k, json |-> JsonNull] : k \in {"undefined", "empty", "garbage"} }
    \cup { [kind |-> "json", json |-> v] : v \in JsonValues }

\* textResponse.text of stage 1.
BriefTexts == {Undefined, "", "A central timeline showing Q3 growth"}

\* A content part of the image response: a text part, or one carrying inlineData.
ImageParts ==
    { [inlineData |-> FALSE, data |-> ""] }
    \cup { [inlineData |-> TRUE, data |-> d] : d \in {"iVBOR", "AAAA"} }
RECURSIVE TotalParts(_)
TotalParts(candidates) ==
    IF candidates = <<>> THEN 0
    ELSE Len(Head(candidates)) + TotalParts(Tail(candidates))
\* imageResponse.candidates, each candidate being its content.parts (an absent
\* candidates array and an absent content read as empty): no candidate, one, or
\* a first and another one, with MaxParts parts in all.
ImageResponses ==
    LET P == SeqsUpTo(ImageParts, MaxParts)
    IN  { c \in {<<>>} \cup {<<first>> : first \in P}
                      \cup {<<first, other>> : first \in P, other \in P} :
            TotalParts(c) <= MaxParts }

\* Messages a rejected transport call may carry; "" stands for an error without one.
TransportMessages == {"fetch failed", ""}

\* --------------------------------------------------------------- state
VARIABLES
    status,                 \* App: useState<AppStatus>
    mode,                   \* App: useState<AppMode>
    files,                  \* App: useState<FileInput[]> (the names)
    prompt,                 \* App: useState('')
    generatedDeck,          \* App: useState<Deck | null>
    generatedInfographic,   \* App: useState<string | null>
    errorMsg,               \* App: useState<string | null>
    currentSlideIndex,      \* DeckRenderer: useState(0); 0 while not mounted
    apiKey,                 \* process.env.API_KEY is set
    inflight,               \* suspended handleGenerate invocations
    uploads,                \* suspended handleFileChange invocations
    inputFiles,             \* e.target.files, the file input's FileList, while an
                            \* invocation is suspended (nothing reads it otherwise)
    crashed,                \* a render threw: React unmounted the tree
    settled,                \* what the service did in the invocation that settled last
    nextRun,                \* next actions since mount with no previous; -1 after one
    exported                \* text of the last presentation.json since mount

vars == <<status, mode, files, prompt, generatedDeck, generatedInfographic, errorMsg,
          currentSlideIndex, apiKey, inflight, uploads, inputFiles, crashed, settled,
          nextRun, exported>>

appInputs == <<mode, files, prompt, uploads, inputFiles>>
appResult == <<generatedDeck, generatedInfographic>>
renderer == <<currentSlideIndex, nextRun, exported>>

\* ------------------------------------------------------ pure functions
\* JSON.parse(response.text): throws on text that is not JSON.
JSONParse(text) ==
    IF text.kind = "json" THEN [ok |-> TRUE, value |-> text.json]
    ELSE [ok |-> FALSE, value |-> JsonNull]

\* The try block of generateDeck from the awaited call on; resp is the settled
\* generateContent call (rejected, or resolved with a text).
generateDeckTry(resp) ==
    IF resp.rejected
    THEN [ok |-> FALSE, deck |-> JsonNull, message |-> resp.message]
    ELSE IF resp.text.kind \in {"undefined", "empty"}
    THEN [ok |-> FALSE, deck |-> JsonNull, message |-> MsgNoResponse]
    ELSE LET deckData == JSONParse(resp.text)
         IN  IF deckData.ok
             THEN [ok |-> TRUE, deck |-> deckData.value, message |-> ""]
             ELSE [ok |-> FALSE, deck |-> JsonNull, message |-> "SyntaxError"]

\* Mutant: no catch block, so the error thrown inside the try block escapes as it is.
generateDeckOutcome_Rethrows(resp) == generateDeckTry(resp)

\* The catch block: whatever was thrown is replaced by one generic Error.
generateDeckOutcome(resp) ==
    LET r == generateDeckTry(resp)
    IN  IF r.ok THEN r ELSE [r EXCEPT !.message = MsgDeckFailed]

\* Mutant: textResponse.text ?? "<fallback>" (an empty brief is passed on).
imagePrompt_NullishOnly(text) == IF text = Undefined THEN FallbackBrief ELSE text

\* textResponse.text || "<fallback>"
imagePrompt(text) ==
    IF text = Undefined \/ text = "" THEN FallbackBrief ELSE text

\* Mutant: the parts of every candidate, in order, instead of the first one's.
RECURSIVE firstCandidateParts_AllCandidates(_)
firstCandidateParts_AllCandidates(candidates) ==
    IF candidates = <<>> THEN <<>>
    ELSE Head(candidates) \o firstCandidateParts_AllCandidates(Tail(candidates))

\* imageResponse.candidates?.[0]?.content?.parts || []
firstCandidateParts(candidates) ==
    IF Len(candidates) >= 1 THEN candidates[1] ELSE <<>>

\* for (const part of parts) if (part.inlineData) return `data:image/png;base64,${...}`
RECURSIVE scanParts(_)
scanParts(parts) ==
    IF parts = <<>> THEN [ok |-> FALSE, url |-> Null, message |-> MsgImageFailed]
    ELSE IF Head(parts).inlineData
         THEN [ok |-> TRUE, url |-> DataUriPrefix \o Head(parts).data, message |-> ""]
         ELSE scanParts(Tail(parts))

extractImage(candidates) == scanParts(firstCandidateParts(candidates))

\* Mutant: err.message is shown as it is, without the fallback text.
catchMessage_NoFallback(message) == message

\* err.message || "An unexpected error occurred."
catchMessage(message) == IF message = "" THEN MsgUnexpected ELSE message

\* Mutant: next wraps around to the first slide.
nextSlideUpdater_Wraps(p, n) == IF n = 0 THEN 0 ELSE (p + 1) % n

\* nextSlide / prevSlide updaters; n is deck.slides.length.
nextSlideUpdater(p, n) == MathMin(p + 1, n - 1)
prevSlideUpdater(p) == MathMax(p - 1, 0)

\* Mutant: no loading view, the input form stays on screen while busy.
View_NoLoadingView(st, deck, infographic) ==
    IF st = "COMPLETE" /\ Truthy(deck) THEN "deck"
    ELSE IF st = "COMPLETE" /\ infographic # Null /\ infographic # "" THEN "infographic"
    ELSE "input"

\* Which view App renders.
View(st, deck, infographic) ==
    IF st = "COMPLETE" /\ Truthy(deck) THEN "deck"
    ELSE IF st = "COMPLETE" /\ infographic # Null /\ infographic # "" THEN "infographic"
    ELSE IF st = "ANALYZING" \/ st = "GENERATING" THEN "loading"
    ELSE "input"

CurrentView == View(status, generatedDeck, generatedInfographic)

\* slide.content.chartData?.[0]?.value2 && <Bar dataKey="value2" ... />
secondBar(content) ==
    /\ content.chartData # <<>>
    /\ content.chartData[1].hasValue2
    /\ content.chartData[1].value2 # 0

\* SlideContent: each case of the six layouts reads a property of slide.content,
\* a TypeError when content is undefined; any other layout takes the default case.
SlideContent(slide) ==
    IF slide.layout \in SlideLayout
    THEN IF ~slide.content.defined
         THEN [throws |-> TRUE, placeholder |-> FALSE, secondSeries |-> FALSE]
         ELSE [throws |-> FALSE, placeholder |-> FALSE,
               secondSeries |-> slide.layout = "CHART_BAR" /\ secondBar(slide.content)]
    ELSE [throws |-> FALSE, placeholder |-> TRUE, secondSeries |-> FALSE]

\* DeckRenderer's render reads deck.slides.length and deck.slides[index].layout,
\* a TypeError when slides or the indexed slide is undefined, and renders
\* SlideContent for the indexed slide.
DeckRendererThrows(deck, index) ==
    \/ ~deck.hasSlides
    \/ index + 1 \notin 1..Len(deck.slides)
    \/ SlideContent(deck.slides[index + 1]).throws

\* JSON.stringify(deck, null, 2): the text whose parse is the value again
\* (properties that are undefined are left out, and read as undefined after a parse).
JSONStringify(value) == [kind |-> "json", json |-> value]
NoDocument == [kind |-> "none", json |-> JsonNull]

\* The render that follows a state update; a throw unmounts the whole tree.
RenderThrows(st, deck, infographic, index) ==
    View(st, deck, infographic) = "deck" /\ DeckRendererThrows(deck, index)

\* The for loop of handleFileChange from index `from`: oversized files are skipped
\* (alert, continue); the result is the index of the next file to read, 0 if none.
RECURSIVE NextReadable(_, _)
NextReadable(sel, from) ==
    IF from > Len(sel) THEN 0
    ELSE IF sel[from].size > MaxFileBytes THEN NextReadable(sel, from + 1)
    ELSE from

RemoveAt(s, i) == SubSeq(s, 1, i - 1) \o SubSeq(s, i + 1, Len(s))

\* The files of a selection that are within the size cap, in selection order.
WithinCap(file) == file.size <= MaxFileBytes
Accepted(sel) == SelectSeq(sel, WithinCap)

\* Files within the cap selected by the suspended handleFileChange invocations.
RECURSIVE PendingInUploads(_)
PendingInUploads(us) ==
    IF us = <<>> THEN 0 ELSE Len(Accepted(Head(us).sel)) + PendingInUploads(Tail(us))

\* ---------------------------------------------- observations of the input
\* The inline payloads of a sequence of parts, in order.
RECURSIVE Payloads(_)
Payloads(parts) ==
    IF parts = <<>> THEN <<>>
    ELSE IF Head(parts).inlineData THEN <<Head(parts).data>> \o Payloads(Tail(parts))
    ELSE Payloads(Tail(parts))

AnyPayload(candidates) ==
    \E c \in 1..Len(candidates) : Payloads(candidates[c]) # <<>>

\* The states of the calls of a log, in the order they were issued.
CallStates(calls) == [k \in 1..Len(calls) |-> calls[k].state]

\* The first inline payload of the first candidate, Null when there is none.
FirstPayload(candidates) ==
    LET ps == IF candidates = <<>> THEN <<>> ELSE Payloads(Head(candidates))
    IN  IF ps = <<>> THEN Null ELSE Head(ps)

NothingSettled ==
    [cause |-> "none", calls |-> <<>>, firstPayload |-> Null, anyPayload |-> FALSE]

Call(model, parts) ==
    [model |-> model, parts |-> parts, state |-> "pending", result |-> Undefined]

\* The settled structured call: rejected by the transport, or resolved.
DeckResponses ==
    { [rejected |-> TRUE, message |-> m, text |-> [kind |-> "undefined", json |-> JsonNull]] :
        m \in TransportMessages }
    \cup { [rejected |-> FALSE, message |-> "", text |-> t] : t \in DeckTexts }

\* ---------------------------------------------------------------- Init
Init ==
    /\ status = "IDLE"
    /\ mode = "DECK"
    /\ files = <<>>
    /\ prompt = ""
    /\ generatedDeck = JsonNull
    /\ generatedInfographic = Null
    /\ errorMsg = Null
    /\ currentSlideIndex = 0
    /\ apiKey \in BOOLEAN
    /\ inflight = <<>>
    /\ uploads = <<>>
    /\ inputFiles = <<>>
    /\ crashed = FALSE
    /\ settled = NothingSettled
    /\ nextRun = 0
    /\ exported = NoDocument

\* Handlers exist only while the tree is mounted.
Mounted == ~crashed
InputView == Mounted /\ CurrentView = "input"

\* ------------------------------------------------------ input form
\* onClick={() => setMode(...)}
SetMode(m) ==
    /\ InputView
    /\ mode' = m
    /\ UNCHANGED <<status, files, prompt, appResult, errorMsg, renderer, apiKey,
                   inflight, uploads, inputFiles, crashed, settled>>

\* onChange={(e) => setPrompt(e.target.value)}
SetPrompt(p) ==
    /\ InputView
    /\ prompt' = p
    /\ UNCHANGED <<status, mode, files, appResult, errorMsg, renderer, apiKey,
                   inflight, uploads, inputFiles, crashed, settled>>

\* handleFileChange up to its first await (or to its end when nothing is read).
\* The loop reads e.target.files anew at every iteration; `file`, the File being
\* read, is held by the closure of the suspended invocation.  (React 17 and later:
\* the event object is not pooled, so e.target is still the input after an await.)
\* sel records the selection the invocation was started with.
HandleFileChange(sel) ==
    /\ InputView
    /\ Len(files) + PendingInUploads(uploads) + Len(Accepted(sel)) <= MaxFiles
    /\ LET j == NextReadable(sel, 1)
       IN  IF j = 0
           THEN /\ files' = files \o <<>>
                /\ inputFiles' = (IF uploads = <<>> THEN <<>> ELSE sel)
                /\ UNCHANGED uploads
           ELSE /\ Len(uploads) < MaxUploads
                /\ uploads' = Append(uploads,
                       [sel |-> sel, file |-> sel[j], i |-> j, newFiles |-> <<>>])
                /\ inputFiles' = sel
                /\ UNCHANGED files
    /\ UNCHANGED <<status, mode, prompt, appResult, errorMsg, renderer, apiKey,
                   inflight, crashed, settled>>

\* reader.onload for the file being read by invocation u, and the loop, over
\* e.target.files as it is now, up to the next await or to
\* setFiles(prev => [...prev, ...newFiles]).
FileLoaded(u) ==
    /\ Mounted
    /\ u \in 1..Len(uploads)
    /\ LET up == uploads[u]
           newFiles == Append(up.newFiles, up.file.name)
           j == NextReadable(inputFiles, up.i + 1)
       IN  IF j = 0
           THEN /\ files' = files \o newFiles
                /\ uploads' = RemoveAt(uploads, u)
                /\ inputFiles' = (IF Len(uploads) = 1 THEN <<>> ELSE inputFiles)
           ELSE /\ uploads' = [uploads EXCEPT ![u] =
                       [up EXCEPT !.file = inputFiles[j], !.i = j, !.newFiles = newFiles]]
                /\ UNCHANGED <<files, inputFiles>>
    /\ UNCHANGED <<status, mode, prompt, appResult, errorMsg, renderer, apiKey,
                   inflight, crashed, settled>>

\* removeFile(index): files.filter((_, i) => i !== index)
RemoveFile(index) ==
    /\ InputView
    /\ index \in 0..(Len(files) - 1)
    /\ files' = RemoveAt(files, index + 1)
    /\ UNCHANGED <<status, mode, prompt, appResult, errorMsg, renderer, apiKey,
                   inflight, uploads, inputFiles, crashed, settled>>

\* ------------------------------------------------------ handleGenerate
\* generateDeck / generateInfographic up to the first await: getClient() throws
\* without a key, otherwise the first generateContent call is issued.
StartInvocation(m, key) ==
    IF ~key THEN [op |-> m, stage |-> "keyError", calls |-> <<>>]
    ELSE IF m = "DECK"
    THEN [op |-> m, stage |-> "deckCall", calls |-> <<Call(TextModel, <<"finalPrompt">>)>>]
    ELSE [op |-> m, stage |-> "briefCall", calls |-> <<Call(TextModel, <<"synthesisPrompt">>)>>]

\* Mutant: no pre-flight check, every click issues a request.
HandleGenerate_NoPreflight ==
    /\ InputView
    /\ ~(Len(files) = 0 /\ Len(prompt) = 0)
    /\ Len(inflight) < MaxInFlight
    /\ errorMsg' = Null
    /\ status' = "ANALYZING"
    /\ inflight' = Append(inflight, StartInvocation(mode, apiKey))
    /\ UNCHANGED <<appInputs, appResult, renderer, apiKey, crashed, settled>>

\* The Generate button (disabled with no file and an empty prompt).
HandleGenerate ==
    /\ InputView
    /\ ~(Len(files) = 0 /\ Len(prompt) = 0)
    /\ Len(inflight) < MaxInFlight
    /\ IF Len(files) = 0 /\ Len(prompt) < MinPromptLength
       THEN /\ errorMsg' = MsgEmptyInput
            /\ UNCHANGED <<status, inflight>>
       ELSE /\ errorMsg' = Null
            /\ status' = "ANALYZING"
            /\ inflight' = Append(inflight, StartInvocation(mode, apiKey))
    /\ UNCHANGED <<appInputs, appResult, renderer, apiKey, crashed, settled>>

\* Mutant: the catch block returns the App to IDLE instead of ERROR.
Catch_ToIdle(i, message, observed) ==
    /\ errorMsg' = (IF message = "" THEN MsgUnexpected ELSE message)
    /\ status' = "IDLE"
    /\ inflight' = RemoveAt(inflight, i)
    /\ settled' = observed
    /\ UNCHANGED <<appInputs, appResult, renderer, apiKey, crashed>>

\* The catch block of handleGenerate for invocation i.
Catch(i, message, observed) ==
    /\ errorMsg' = catchMessage(message)
    /\ status' = "ERROR"
    /\ inflight' = RemoveAt(inflight, i)
    /\ settled' = observed
    /\ UNCHANGED <<appInputs, appResult, renderer, apiKey, crashed>>

Observed(cause, calls) ==
    [cause |-> cause, calls |-> CallStates(calls), firstPayload |-> Null, anyPayload |-> FALSE]

Settle(calls, k, state, result) ==
    [calls EXCEPT ![k] = [@ EXCEPT !.state = state, !.result = result]]

\* The rejection thrown by getClient() reaches the catch block.
KeyErrorCaught(i) ==
    /\ Mounted
    /\ i \in 1..Len(inflight)
    /\ inflight[i].stage = "keyError"
    /\ Catch(i, MsgNoApiKey, Observed("noKey", inflight[i].calls))

DeckCause(resp) == IF resp.rejected THEN "rejected" ELSE resp.text.kind

\* The structured call of generateDeck settles; the rest of generateDeck and of
\* handleGenerate runs, then App renders.
DeckSettled(i, resp) ==
    /\ Mounted
    /\ i \in 1..Len(inflight)
    /\ inflight[i].stage = "deckCall"
    /\ LET r == generateDeckOutcome(resp)
           calls == Settle(inflight[i].calls, 1,
                           IF resp.rejected THEN "rejected" ELSE "resolved", resp.text.kind)
       IN  IF r.ok
           THEN /\ generatedDeck' = r.deck
                /\ status' = "COMPLETE"
                /\ inflight' = RemoveAt(inflight, i)
                /\ settled' = Observed(DeckCause(resp), calls)
                /\ currentSlideIndex' = 0
                /\ nextRun' = 0
                /\ exported' = NoDocument
                /\ crashed' = RenderThrows("COMPLETE", r.deck, generatedInfographic, 0)
                /\ UNCHANGED <<appInputs, generatedInfographic, errorMsg, apiKey>>
           ELSE Catch(i, r.message, Observed(DeckCause(resp), calls))

\* ------------------------------------------------- generateInfographic
\* Stage 1 resolves: the brief (or the fallback) becomes the sole part of the
\* stage-2 request, issued with a client from a second getClient().
BriefResolved(i, text) ==
    /\ Mounted
    /\ i \in 1..Len(inflight)
    /\ inflight[i].stage = "briefCall"
    /\ LET calls == Settle(inflight[i].calls, 1, "resolved", text)
       IN  IF ~apiKey
           THEN Catch(i, MsgNoApiKey, Observed("noKey", calls))
           ELSE /\ inflight' = [inflight EXCEPT ![i] =
                       [@ EXCEPT !.stage = "imageCall",
                                 !.calls = Append(calls, Call(ImageModel, <<imagePrompt(text)>>))]]
                /\ UNCHANGED <<status, appInputs, appResult, errorMsg, renderer, apiKey,
                               crashed, settled>>

\* Mutant: a rejected stage 1 is swallowed and stage 2 is issued with the fallback.
BriefRejected_FallsBack(i, message) ==
    /\ Mounted
    /\ i \in 1..Len(inflight)
    /\ inflight[i].stage = "briefCall"
    /\ inflight' = [inflight EXCEPT ![i] =
           [@ EXCEPT !.stage = "imageCall",
                     !.calls = Append(Settle(inflight[i].calls, 1, "rejected", Undefined),
                                      Call(ImageModel, <<FallbackBrief>>))]]
    /\ UNCHANGED <<status, appInputs, appResult, errorMsg, renderer, apiKey,
                   crashed, settled>>

\* Stage 1 rejects: the error leaves generateInfographic at the first await.
BriefRejected(i, message) ==
    /\ Mounted
    /\ i \in 1..Len(inflight)
    /\ inflight[i].stage = "briefCall"
    /\ Catch(i, message,
             Observed("rejected", Settle(inflight[i].calls, 1, "rejected", Undefined)))

\* Stage 2 resolves: the image is extracted, or the extraction throws.
ImageResolved(i, candidates) ==
    /\ Mounted
    /\ i \in 1..Len(inflight)
    /\ inflight[i].stage = "imageCall"
    /\ LET r == extractImage(candidates)
           observed == [cause |-> "image",
                        calls |-> CallStates(Settle(inflight[i].calls, 2, "resolved", Undefined)),
                        firstPayload |-> FirstPayload(candidates),
                        anyPayload |-> AnyPayload(candidates)]
       IN  IF r.ok
           THEN /\ generatedInfographic' = r.url
                /\ status' = "COMPLETE"
                /\ inflight' = RemoveAt(inflight, i)
                /\ settled' = observed
                /\ crashed' = RenderThrows("COMPLETE", generatedDeck, r.url, currentSlideIndex)
                /\ UNCHANGED <<appInputs, generatedDeck, errorMsg, renderer, apiKey>>
           ELSE Catch(i, r.message, observed)

\* Stage 2 rejects.
ImageRejected(i, message) ==
    /\ Mounted
    /\ i \in 1..Len(inflight)
    /\ inflight[i].stage = "imageCall"
    /\ Catch(i, message,
             Observed("rejected", Settle(inflight[i].calls, 2, "rejected", Undefined)))

\* Mutant: the loading view has a button that takes the App back to the editor.
HandleBack_Cancels ==
    /\ Mounted
    /\ CurrentView \in {"deck", "infographic", "loading"}
    /\ status' = "IDLE"
    /\ generatedDeck' = JsonNull
    /\ generatedInfographic' = Null
    /\ currentSlideIndex' = 0
    /\ nextRun' = 0
    /\ exported' = NoDocument
    /\ UNCHANGED <<appInputs, errorMsg, apiKey, inflight, crashed, settled>>

\* ------------------------------------------------------- result views
\* handleBack: the "Editor" button of the deck and infographic views.
HandleBack ==
    /\ Mounted
    /\ CurrentView \in {"deck", "infographic"}
    /\ status' = "IDLE"
    /\ generatedDeck' = JsonNull
    /\ generatedInfographic' = Null
    /\ currentSlideIndex' = 0
    /\ nextRun' = 0
    /\ exported' = NoDocument
    /\ UNCHANGED <<appInputs, errorMsg, apiKey, inflight, crashed, settled>>

SlidesLength == Len(generatedDeck.slides)

\* nextSlide, from the chevron button (disabled on the last slide) or ArrowRight.
NextSlide(via) ==
    /\ Mounted
    /\ CurrentView = "deck"
    /\ via = "button" => currentSlideIndex # SlidesLength - 1
    /\ currentSlideIndex' = nextSlideUpdater(currentSlideIndex, SlidesLength)
    /\ nextRun' = IF nextRun < 0 THEN nextRun ELSE MathMin(nextRun + 1, MaxSlides + 1)
    /\ crashed' = RenderThrows(status, generatedDeck, generatedInfographic, currentSlideIndex')
    /\ UNCHANGED <<status, appInputs, appResult, errorMsg, apiKey, inflight, settled,
                   exported>>

\* prevSlide, from the chevron button (disabled on the first slide) or ArrowLeft.
PrevSlide(via) ==
    /\ Mounted
    /\ CurrentView = "deck"
    /\ via = "button" => currentSlideIndex # 0
    /\ currentSlideIndex' = prevSlideUpdater(currentSlideIndex)
    /\ nextRun' = -1
    /\ crashed' = RenderThrows(status, generatedDeck, generatedInfographic, currentSlideIndex')
    /\ UNCHANGED <<status, appInputs, appResult, errorMsg, apiKey, inflight, settled,
                   exported>>

\* Mutant: only the slide on screen is exported.
Export_CurrentSlide ==
    /\ Mounted
    /\ CurrentView = "deck"
    /\ exported' = JSONStringify([generatedDeck EXCEPT
                      !.slides = <<generatedDeck.slides[currentSlideIndex + 1]>>])
    /\ UNCHANGED <<status, appInputs, appResult, errorMsg, currentSlideIndex, nextRun,
                   apiKey, inflight, crashed, settled>>

\* The Export JSON button: the deck prop is serialized into the href of an anchor
\* that is clicked and removed (encodeURIComponent is undone by the browser when
\* it saves presentation.json); no state is set.
Export ==
    /\ Mounted
    /\ CurrentView = "deck"
    /\ exported' = JSONStringify(generatedDeck)
    /\ UNCHANGED <<status, appInputs, appResult, errorMsg, currentSlideIndex, nextRun,
                   apiKey, inflight, crashed, settled>>

\* ------------------------------------------------------------- Next
Next ==
    \/ \E m \in AppMode : SetMode(m)
    \/ \E p \in Prompts : SetPrompt(p)
    \/ \E sel \in SingleSelections : HandleFileChange(sel)
    \/ \E u \in 1..MaxUploads : FileLoaded(u)
    \/ \E index \in 0..(MaxFiles - 1) : RemoveFile(index)
    \/ HandleGenerate
    \/ \E i \in 1..MaxInFlight : KeyErrorCaught(i)
    \/ \E i \in 1..MaxInFlight, resp \in DeckResponses : DeckSettled(i, resp)
    \/ \E i \in 1..MaxInFlight, text \in BriefTexts : BriefResolved(i, text)
    \/ \E i \in 1..MaxInFlight, m \in TransportMessages : BriefRejected(i, m)
    \/ \E i \in 1..MaxInFlight, c \in ImageResponses : ImageResolved(i, c)
    \/ \E i \in 1..MaxInFlight, m \in TransportMessages : ImageRejected(i, m)
    \/ HandleBack
    \/ \E via \in {"button", "key"} : NextSlide(via)
    \/ \E via \in {"button", "key"} : PrevSlide(via)
    \/ Export

Spec == Init /\ [][Next]_vars

\* The generation service answers or fails a pending call, and the continuation
\* of the suspended handleGenerate runs.
ServiceAnswers ==
    \/ \E i \in 1..MaxInFlight : KeyErrorCaught(i)
    \/ \E i \in 1..MaxInFlight, resp \in DeckResponses : DeckSettled(i, resp)
    \/ \E i \in 1..MaxInFlight, text \in BriefTexts : BriefResolved(i, text)
    \/ \E i \in 1..MaxInFlight, m \in TransportMessages : BriefRejected(i, m)
    \/ \E i \in 1..MaxInFlight, c \in ImageResponses : ImageResolved(i, c)
    \/ \E i \in 1..MaxInFlight, m \in TransportMessages : ImageRejected(i, m)

\* Spec with a service that eventually settles every call it was sent, and a
\* browser that eventually runs the continuation of a settled await.
FairSpec == Spec /\ WF_vars(ServiceAnswers)

\* ------------------------------------------------ the file input alone
\* The attachments section of the input form, with selections of several files;
\* the other handlers neither read nor set uploads, and read of files its length only.
FilesNext ==
    \/ \E sel \in Selections : HandleFileChange(sel)
    \/ \E u \in 1..MaxUploads : FileLoaded(u)
    \/ \E index \in 0..(MaxFiles - 1) : RemoveFile(index)

FilesSpec == Init /\ [][FilesNext]_vars

\* --------------------------------------------- the DeckRenderer alone
\* App has just stored a deck returned by generateDeck and rendered the deck view.
RenderInit ==
    /\ status = "COMPLETE"
    /\ mode = "DECK"
    /\ files = <<>>
    /\ prompt = "Analyze Q3"
    /\ generatedDeck \in RenderDecks
    /\ generatedInfographic = Null
    /\ errorMsg = Null
    /\ currentSlideIndex = 0
    /\ apiKey = TRUE
    /\ inflight = <<>>
    /\ uploads = <<>>
    /\ inputFiles = <<>>
    /\ crashed = RenderThrows("COMPLETE", generatedDeck, Null, 0)
    /\ settled = Observed("json", <<[state |-> "resolved"]>>)
    /\ nextRun = 0
    /\ exported = NoDocument

RenderNext ==
    \/ \E via \in {"button", "key"} : NextSlide(via)
    \/ \E via \in {"button", "key"} : PrevSlide(via)
    \/ Export

RenderSpec == RenderInit /\ [][RenderNext]_vars

\* ================================================================ claims
RECURSIVE PendingCalls(_)
PendingCalls(calls) ==
    IF calls = <<>> THEN 0
    ELSE (IF Head(calls).state = "pending" THEN 1 ELSE 0) + PendingCalls(Tail(calls))

RECURSIVE PendingInFlight(_)
PendingInFlight(invs) ==
    IF invs = <<>> THEN 0
    ELSE PendingCalls(Head(invs).calls) + PendingInFlight(Tail(invs))

\* A handleGenerate invocation settles in this step.
InvocationSettles == Len(inflight') < Len(inflight)

\* C1: while the DeckRenderer shows a deck returned by generateDeck, the cursor
\* satisfies 0 <= currentSlideIndex <= deck.slides.length - 1.
C1_CursorInBounds ==
    (CurrentView = "deck" /\ generatedDeck.hasSlides)
        => (0 <= currentSlideIndex /\ currentSlideIndex <= SlidesLength - 1)

\* C2: after k next actions from the initial index 0 the cursor is min(k, N-1), so
\* N-1 of them reach N-1 and further ones change nothing; every next sets the cursor
\* to min(index+1, N-1) and every previous to max(index-1, 0), without wrapping.
C2_NavigationSaturates ==
    /\ [] ( (Mounted /\ CurrentView = "deck" /\ nextRun >= 0)
              => currentSlideIndex =
                   (IF nextRun >= SlidesLength - 1 THEN SlidesLength - 1 ELSE nextRun) )
    /\ [][ /\ (\E via \in {"button", "key"} : NextSlide(via))
              => currentSlideIndex' =
                   (IF currentSlideIndex + 1 <= SlidesLength - 1
                    THEN currentSlideIndex + 1 ELSE SlidesLength - 1)
           /\ (\E via \in {"button", "key"} : PrevSlide(via))
              => currentSlideIndex' =
                   (IF currentSlideIndex = 0 THEN 0 ELSE currentSlideIndex - 1) ]_vars

\* C2 witness: on a two-slide deck a third next has left the cursor on the last slide.
C2_Witness ==
    /\ Mounted /\ CurrentView = "deck"
    /\ SlidesLength = 2 /\ nextRun = 3 /\ currentSlideIndex = 1

\* C3: at most one handleGenerate invocation, and at most one service call, is
\* unresolved at any time, and the status is busy exactly while one is.
C3_OneInFlight ==
    /\ Len(inflight) <= 1
    /\ PendingInFlight(inflight) <= 1
    /\ (status = "ANALYZING") <=> (Len(inflight) = 1)

\* C3 witness: the App is busy with the second call of one infographic synthesis.
C3_Witness ==
    /\ status = "ANALYZING" /\ Len(inflight) = 1
    /\ inflight[1].stage = "imageCall"

\* C4 as stated: the status only moves idle -> busy -> (complete | error) -> idle.
C4_StatusCycle ==
    [][ status' # status =>
          \/ status = "IDLE" /\ status' = "ANALYZING"
          \/ status = "ANALYZING" /\ status' \in {"COMPLETE", "ERROR"}
          \/ status \in {"COMPLETE", "ERROR"} /\ status' = "IDLE" ]_vars

\* C4 amended: busy is entered from idle, from error, and from complete when the
\* input form is on screen; complete and error are entered only from busy; idle is
\* entered only from complete, by handleBack; error is never followed by idle.
C4_StatusTransitions ==
    [][ status' # status =>
          \/ status = "IDLE" /\ status' = "ANALYZING"
          \/ status = "ERROR" /\ status' = "ANALYZING"
          \/ status = "COMPLETE" /\ status' = "ANALYZING" /\ CurrentView = "input"
          \/ status = "ANALYZING" /\ status' \in {"COMPLETE", "ERROR"}
          \/ status = "COMPLETE" /\ status' = "IDLE" /\ HandleBack ]_vars

\* C4 witness: busy again after an invocation that failed on unparseable text.
C4_Witness ==
    /\ status = "ANALYZING"
    /\ settled.cause = "garbage"

\* C5: a response whose slides array is empty produces no Deck, so a stored Deck
\* that has a slides array has at least one slide.
C5_AcceptedDeckHasSlides ==
    generatedDeck.hasSlides => Len(generatedDeck.slides) >= 1

\* C6: every slide of a stored Deck has one of the six layouts of the enum.
C6_AcceptedLayoutsInEnum ==
    \A k \in 1..Len(generatedDeck.slides) :
        generatedDeck.slides[k].layout \in SlideLayout

\* The error generateDeck raises for each response that is not unparseable text.
OtherDeckFailures ==
    { generateDeckOutcome(r).message :
        r \in { x \in DeckResponses :
                  ~generateDeckOutcome(x).ok /\ (x.rejected \/ x.text.kind # "garbage") } }

\* C7 as stated: unparseable text fails generateDeck with an error of its own,
\* distinct from every other failure, and no Deck is stored.
C7_DistinctFormatError ==
    [][ (InvocationSettles /\ settled'.cause = "garbage") =>
          /\ status' = "ERROR"
          /\ ~Truthy(generatedDeck')
          /\ errorMsg' \notin OtherDeckFailures \cup {MsgNoApiKey, MsgImageFailed} ]_vars

\* C7 amended: unparseable text fails generateDeck with the generic deck error, the
\* one also raised for a rejected call and for an empty response; no Deck is stored
\* and the status becomes ERROR.
C7_UnparseableFails ==
    [][ (InvocationSettles /\ settled'.cause = "garbage") =>
          /\ status' = "ERROR"
          /\ ~Truthy(generatedDeck') /\ UNCHANGED generatedDeck
          /\ generatedInfographic' = Null
          /\ errorMsg' = MsgDeckFailed
          /\ errorMsg' \in OtherDeckFailures
          /\ errorMsg' \notin {MsgNoApiKey, MsgImageFailed} ]_vars

\* C7 witness: the App shows the deck error after unparseable text.
C7_Witness ==
    /\ settled.cause = "garbage"
    /\ status = "ERROR" /\ errorMsg = MsgDeckFailed
    /\ generatedDeck = JsonNull

\* C8: within one generateInfographic the image call exists only once the brief call
\* has resolved, no two calls are pending together, and a brief call that was
\* rejected is the last call of its invocation.
C8_BriefBeforeImage ==
    /\ \A i \in 1..Len(inflight) :
         LET calls == inflight[i].calls
         IN  /\ PendingCalls(calls) <= 1
             /\ Len(calls) <= 2
             /\ \A k \in 1..Len(calls) :
                  calls[k].model = ImageModel
                    => (k = 2 /\ calls[1].model = TextModel /\ calls[1].state = "resolved"
                        /\ inflight[i].op = "INFOGRAPHIC")
    /\ PendingInFlight(inflight) <= 1
    /\ (Len(settled.calls) >= 1 /\ settled.calls[1] # "resolved") => Len(settled.calls) = 1

\* C8 witness: an earlier synthesis ended with its brief call rejected, and the
\* image call of the current one is pending after its brief call resolved.
C8_Witness ==
    /\ settled.calls = <<"rejected">>
    /\ Len(inflight) = 1 /\ inflight[1].stage = "imageCall"
    /\ inflight[1].calls[1].state = "resolved" /\ inflight[1].calls[2].state = "pending"

\* The brief stage 2 must carry for a stage-1 text.
ExpectedBrief(text) == IF text = Undefined \/ text = "" THEN FallbackBrief ELSE text

\* C9: whenever stage 1 resolves, also with an empty or absent text, stage 2 is
\* issued and its only part is the brief, or the fallback brief verbatim.
C9_Stage2Content ==
    /\ [] ( \A i \in 1..Len(inflight) :
              Len(inflight[i].calls) = 2
                => inflight[i].calls[2].parts = <<ExpectedBrief(inflight[i].calls[1].result)>> )
    /\ [][ \A text \in BriefTexts :
             (\E i \in 1..Len(inflight) : BriefResolved(i, text))
               => \E j \in 1..Len(inflight') :
                    /\ inflight'[j].stage = "imageCall"
                    /\ inflight'[j].calls[2].model = ImageModel
                    /\ inflight'[j].calls[2].state = "pending"
                    /\ inflight'[j].calls[2].parts = <<ExpectedBrief(text)>> ]_vars

\* C9 witness: stage 1 returned "" and the pending image call carries the fallback.
C9_Witness ==
    /\ Len(inflight) = 1 /\ inflight[1].stage = "imageCall"
    /\ inflight[1].calls[1].result = ""
    /\ inflight[1].calls[2].parts = <<FallbackBrief>>

\* C10 as stated: the first inline payload is returned, and the image error is
\* raised exactly when no candidate of the response carries a payload.
C10_FailsIffNoPayloadAnywhere ==
    [][ (InvocationSettles /\ settled'.cause = "image") =>
          IF settled'.anyPayload
          THEN /\ status' = "COMPLETE"
               /\ generatedInfographic' = DataUriPrefix \o settled'.firstPayload
          ELSE /\ status' = "ERROR"
               /\ errorMsg' = MsgImageFailed ]_vars

\* C10 amended: the first inline payload among the parts of the first candidate is
\* returned; the image error is raised exactly when the first candidate is absent
\* or carries no payload, whatever the other candidates carry.
C10_FirstCandidateOnly ==
    [][ (InvocationSettles /\ settled'.cause = "image") =>
          IF settled'.firstPayload # Null
          THEN /\ status' = "COMPLETE"
               /\ generatedInfographic' = DataUriPrefix \o settled'.firstPayload
               /\ errorMsg' = Null
          ELSE /\ status' = "ERROR"
               /\ errorMsg' = MsgImageFailed
               /\ generatedInfographic' = Null ]_vars

\* C10 witness: the image error is on screen although a later candidate carried a
\* payload.
C10_Witness ==
    /\ settled.cause = "image"
    /\ settled.firstPayload = Null /\ settled.anyPayload
    /\ status = "ERROR" /\ errorMsg = MsgImageFailed


\* The pre-flight condition of handleGenerate.
TooLittleInput == Len(files) = 0 /\ Len(prompt) < 10

\* C11 as stated: with no file and a prompt under 10 characters handleGenerate
\* issues no request, leaves the status as it is (not busy), sets an error message
\* and stores nothing; in every other case it issues a request.
C11_PreflightElseRequest ==
    [][ HandleGenerate =>
          IF TooLittleInput
          THEN /\ PendingInFlight(inflight') = PendingInFlight(inflight)
               /\ inflight' = inflight
               /\ status' = status /\ status' # "ANALYZING"
               /\ errorMsg' = MsgEmptyInput
               /\ UNCHANGED appResult
          ELSE PendingInFlight(inflight') = PendingInFlight(inflight) + 1 ]_vars

\* C11 amended: the rejected case is as stated; in every other case the status
\* becomes busy and the error message is cleared, and a request is issued exactly
\* when the API key is set: without it getClient throws before any request.
C11_PreflightElseBusy ==
    [][ HandleGenerate =>
          IF TooLittleInput
          THEN /\ PendingInFlight(inflight') = PendingInFlight(inflight)
               /\ inflight' = inflight
               /\ status' = status /\ status' # "ANALYZING"
               /\ errorMsg' = MsgEmptyInput
               /\ UNCHANGED appResult
          ELSE /\ status' = "ANALYZING"
               /\ errorMsg' = Null
               /\ Len(inflight') = Len(inflight) + 1
               /\ PendingInFlight(inflight') =
                    PendingInFlight(inflight) + (IF apiKey THEN 1 ELSE 0) ]_vars

\* C11 witness: a click with no file and an eight-character prompt was rejected.
C11_Witness ==
    /\ files = <<>> /\ prompt = "Q3 trend"
    /\ errorMsg = MsgEmptyInput
    /\ status = "IDLE" /\ inflight = <<>>


\* The invocation that settles in this step failed: the key was missing, a call was
\* rejected, the deck text was undefined, empty or not JSON, or the first candidate
\* of the image response carried no payload.
SynthesisFails ==
    /\ InvocationSettles
    /\ \/ settled'.cause \in {"noKey", "rejected", "undefined", "empty", "garbage"}
       \/ settled'.cause = "image" /\ settled'.firstPayload = Null

\* C12: every failure of a synthesis (missing key, rejected call, empty or
\* unparseable response, missing image payload) ends in ERROR with a non-empty error
\* message; the failure stores nothing, generatedDeck holds no Deck and
\* generatedInfographic no image, and the input form is on screen; a failure never
\* ends in COMPLETE and never leaves the status busy.
C12_FailuresEndInError ==
    /\ [](status = "ERROR" =>
            /\ errorMsg \notin {Null, ""}
            /\ ~Truthy(generatedDeck) /\ generatedInfographic = Null
            /\ CurrentView = "input")
    /\ [][ SynthesisFails =>
             /\ status' = "ERROR"
             /\ errorMsg' \notin {Null, ""}
             /\ ~Truthy(generatedDeck') /\ generatedInfographic' = Null
             /\ UNCHANGED appResult
             /\ inflight' = <<>> ]_vars

\* C12 witness: a call rejected with an error that carries no message has left the
\* App in ERROR with the fallback text.
C12_Witness ==
    /\ settled.cause = "rejected"
    /\ status = "ERROR" /\ errorMsg = MsgUnexpected
    /\ ~Truthy(generatedDeck) /\ generatedInfographic = Null


\* The slide on the main stage of a mounted DeckRenderer.
OnStage == Mounted /\ CurrentView = "deck"
CurrentSlide == generatedDeck.slides[currentSlideIndex + 1]

\* C13: for a CHART_BAR slide on stage the second bar series is drawn if and only
\* if the first point of chartData carries value2, whatever its value (0 included)
\* and whatever the later points carry.
C13_SecondSeriesIffFirstCarriesValue2 ==
    (OnStage /\ CurrentSlide.layout = "CHART_BAR") =>
        ( SlideContent(CurrentSlide).secondSeries
            <=> ( /\ CurrentSlide.content.chartData # <<>>
                  /\ CurrentSlide.content.chartData[1].hasValue2 ) )


\* C14: rendering is total: whenever App shows a deck returned by generateDeck, with
\* slides and with the cursor on one of them, the render has not thrown, and a slide
\* whose layout is outside the enum is rendered as the unsupported-layout placeholder.
C14_RenderingTotal ==
    ( /\ status = "COMPLETE" /\ generatedDeck.type = "object"
      /\ generatedDeck.hasSlides
      /\ currentSlideIndex + 1 \in 1..Len(generatedDeck.slides) )
    => /\ ~crashed
       /\ CurrentSlide.layout \notin SlideLayout => SlideContent(CurrentSlide).placeholder


\* C15: the export changes neither the Deck nor the cursor nor the status, and the
\* exported document, once parsed, is the whole Deck: every slide with its
\* speakerNotes, wherever the cursor is.
C15_ExportReadOnly ==
    /\ [](exported # NoDocument =>
            /\ JSONParse(exported).ok
            /\ JSONParse(exported).value = generatedDeck
            /\ Len(exported.json.slides) = Len(generatedDeck.slides)
            /\ \A k \in 1..Len(generatedDeck.slides) :
                 exported.json.slides[k].speakerNotes = generatedDeck.slides[k].speakerNotes)
    /\ [][Export => UNCHANGED <<generatedDeck, currentSlideIndex, status>>]_vars

\* C15 witness: exported from the second slide, the document holds the first slide
\* with its speakerNotes.
C15_Witness ==
    /\ OnStage /\ currentSlideIndex = 1
    /\ exported # NoDocument
    /\ Len(exported.json.slides) = 2
    /\ exported.json.slides[1].speakerNotes = "Pause on the trend"


\* C16: the status leaves busy only in a step in which the service has answered or
\* failed a call, never by a user action, and then it is COMPLETE or ERROR; with a
\* service that eventually answers or fails each call, every busy state is
\* eventually followed by COMPLETE or ERROR.
C16_BusyUntilSettled ==
    /\ [][ (status = "ANALYZING" /\ status' # "ANALYZING") =>
             /\ ServiceAnswers
             /\ InvocationSettles
             /\ status' \in {"COMPLETE", "ERROR"} ]_vars
    /\ (status = "ANALYZING") ~> (status \in {"COMPLETE", "ERROR"})

\* C16 witness: an infographic synthesis went through both calls and completed.
C16_Witness ==
    /\ status = "COMPLETE" /\ inflight = <<>>
    /\ settled.cause = "image" /\ settled.calls = <<"resolved", "resolved">>


\* C17: generatedDeck and generatedInfographic are both null unless the status is
\* COMPLETE and are never both non-null; a request that completes stores the result
\* of the mode it was issued with (a deck for DECK, an image for INFOGRAPHIC) and
\* leaves the other null.
C17_ResultsMatchStatusAndMode ==
    /\ [](status # "COMPLETE" => (generatedDeck = JsonNull /\ generatedInfographic = Null))
    /\ [](generatedDeck = JsonNull \/ generatedInfographic = Null)
    /\ [][ (InvocationSettles /\ status' = "COMPLETE") =>
             IF inflight[1].op = "DECK"
             THEN generatedInfographic' = Null /\ settled'.cause = "json"
             ELSE generatedDeck' = JsonNull /\ generatedInfographic' # Null ]_vars


\* The names of the files of a selection, in order.
Names(sel) == [k \in 1..Len(sel) |-> sel[k].name]

\* C18: under any interleaving of handleFileChange invocations and removeFile calls,
\* a handleFileChange that ends appends to the file list, as it is then, exactly the
\* files of its selection that are within 5 MB, in selection order; only such an
\* update and removeFile change the list, removeFile taking out one entry; and no
\* file over 5 MB is ever in the list.
C18_NoFileLostOrDuplicated ==
    /\ [](\A k \in 1..Len(files) :
            \A f \in PickerFiles : f.size > 5 * 1024 * 1024 => files[k] # f.name)
    /\ [][ Len(uploads') < Len(uploads) =>
             \E u \in 1..Len(uploads) :
                 /\ uploads' = RemoveAt(uploads, u)
                 /\ files' = files \o Names(Accepted(uploads[u].sel)) ]_vars
    /\ [][ files' # files =>
             \/ Len(uploads') < Len(uploads)
             \/ \E k \in 1..Len(files) : files' = RemoveAt(files, k) ]_vars

====
